---- MODULE Spec2Model ----
(***************************************************************************)
(* TR-Sepet: crawl-and-consolidate pipeline.                               *)
(*                                                                         *)
(* The module holds several state machines over one set of variables:      *)
(*   Spec             run_scraping.main: the shop loop, scrape_categories, *)
(*                    combine_and_filter_csvs, the classifier filter,      *)
(*                    create_sqlite_from_csvs and compress_db              *)
(*   SpecConsolidate  repeated consolidation of one shop's directory       *)
(*   SpecMerge        repeated create_sqlite_from_csvs runs on one store   *)
(*   SpecFanout       routes.scrape: worker processes, join, consolidation *)
(*   SpecScroll       the scroll-until-stable loader of one search         *)
(*   SpecDeposit      the frontend's upload_secure and unzip_new_db_file   *)
(*   SpecScrollForever the scroll loop without a cap on the polls explored *)
(*   SpecSessions     main's shop loop with basic and advanced scrapers     *)
(*   SpecPartition    scrape()'s split of any catalog and its workers       *)
(*   SpecSearch       search() of the adapters over a result set of pages   *)
(*   SpecPrices       get_prices of the shop adapters on one price fragment *)
(*                                                                         *)
(* A specification leaves the variables of the other machines at their     *)
(* idle values.                                                            *)
(***************************************************************************)
EXTENDS Integers, Sequences, FiniteSets, TLC

VARIABLES
    \* ---- scroll-until-stable loader
    script,              \* the mock page: element count shown at the k-th poll
    readyTag,            \* which scraper's search runs (its ready tag)
    loaderPc,            \* position inside search()
    polled,              \* counts returned by find_elements so far, in order
    last_article_count,  \* local of search()
    loaded,              \* number of elements in the page_source that is parsed
    \* ---- run_scraping.main
    scrape,              \* shops.json: the 'scrape' flag of each shop
    arg_shop_name,       \* main's argument (None: all shops)
    classifierMode,      \* what the classifier capability does in this run
    scraperType,         \* shops.json: scraper.type of each shop
    CUSTOM_PROXY,        \* the environment variable CUSTOM_PROXY
    mainPc,              \* position inside main()
    shopIdx,             \* position of the for-loop over shops
    catIdx,              \* position of the for-loop over the catalog
    driver,              \* the scraper's webdriver: "none" or "open"
    outcome,             \* what search did for (shop, category) in this run
    files,               \* PerCategoryFiles: shop -> category -> rows | NoFile
    combined,            \* combined.csv of each shop: rows | NoFile
    log,                 \* log records, in order
    \* ---- create_sqlite_from_csvs / compress_db
    dbPc,                \* position inside create_sqlite_from_csvs
    data,                \* local 'data': the shops with a loaded dataframe
    mergeIdx,            \* position of the for-loop over data.items()
    pending,             \* the dataframe to_sql is writing
    table,               \* the store: shop table -> rows | NoTable
    metadata,            \* the two metadata tables: "absent", "current" or "stale"
    returned,            \* return value: "db_file" | "None" | "unset"
    archive,             \* TRUE once compress_db wrote the archive
    \* ---- history of the run under observation
    tableBefore,         \* the store when the current merge run started
    runs,                \* finished runs (consolidations or merges)
    firstOutput,         \* combined.csv files as the first run left them
    \* ---- routes.scrape (fan-out run of one shop)
    fanPc,               \* position inside scrape()
    shop_name,           \* the route's argument
    jobs,                \* the worker processes, one per chunk
    jobIdx,              \* position of the start loop, then of the join loop
    \* ---- frontend upload_secure / unzip_new_db_file
    UPLOAD_SECRET_KEY,   \* app.config['UPLOAD_SECRET_KEY'] (None: not set)
    database,            \* file names in app.config['DATABASE_FOLDER']
    request,             \* the last request upload_secure handled
    response,            \* the status code it answered with
    served,              \* requests handled so far
    unzipCalls,          \* calls of unzip_new_db_file so far
    \* ---- get_prices of the shop adapters
    priceShop,           \* whose get_prices is applied
    price_tag,           \* the price fragment of one result element
    prices,              \* what get_prices returned (discount, price), in kurus
    \* ---- search() of the paging adapters
    adapter,             \* whose search runs
    resultPages,         \* the result set of the shop: its pages of result elements
    searchPc,            \* position of search
    page_num,            \* search's page counter
    visited,             \* the page numbers search has loaded, in order
    scraped_data,        \* search's accumulated records
    retrieved,           \* what search returned
    \* ---- the catalog of a fan-out run and what its workers did with it
    products_categories_to_search,  \* the catalog column scrape() read
    slices,              \* sliced_products_categories_to_search
    position,            \* per worker: place of its for-loop in its slice
    ended,               \* per worker: "running", "exited" or "failed"
    searches,            \* per catalog row: calls of scraper.search for it
    writers              \* per output path: the (worker, row) that wrote it

scrollVars == <<script, readyTag, loaderPc, polled, last_article_count, loaded>>
configVars == <<scrape, arg_shop_name, classifierMode, scraperType, CUSTOM_PROXY>>
mainVars == <<mainPc, shopIdx, catIdx, driver, outcome, log>>
fileVars == <<files, combined>>
dbVars == <<dbPc, data, mergeIdx, pending, table, metadata, returned, archive>>
histVars == <<tableBefore, runs, firstOutput>>
fanVars == <<fanPc, shop_name, jobs, jobIdx>>
depositVars == <<UPLOAD_SECRET_KEY, database, request, response, served, unzipCalls>>
priceVars == <<priceShop, price_tag, prices>>
searchVars == <<adapter, resultPages, searchPc, page_num, visited, scraped_data, retrieved>>
partVars == <<products_categories_to_search, slices, position, ended, searches, writers>>

vars == <<scrollVars, configVars, mainVars, fileVars, dbVars, histVars, fanVars, depositVars, priceVars, searchVars, partVars>>

(***************************************************************************)
(* Scroll-until-stable loader                                              *)
(***************************************************************************)

\* Number of polls the mock page scripts (and the cap on loop iterations
\* explored; the code itself has no cap).
MaxPolls == 4

\* Rendered-element counts a mock page may show at one poll.
Counts == {0, 1, 5, 12}

\* The tag the initial WebDriverWait waits for.  A101 waits for the tag it
\* later counts ("article"); Macrocenter waits for the list container
\* ("fe-product-list") and counts the cards inside it ("fe-product-card").
ReadyTags == {"article", "fe-product-list"}

NotLoaded == 0 - 1

\* What a loader step leaves alone.
ScrollFrame == UNCHANGED <<configVars, mainVars, fileVars, dbVars, histVars, fanVars, depositVars, priceVars, searchVars, partVars>>

ScrollIdle ==
    /\ script = <<>>
    /\ readyTag = "article"
    /\ loaderPc = "idle"
    /\ polled = <<>>
    /\ last_article_count = 0
    /\ loaded = NotLoaded

ScrollInit ==
    /\ script \in [1..MaxPolls -> Counts]
    /\ readyTag \in ReadyTags
    /\ loaderPc = "wait"
    /\ polled = <<>>
    /\ last_article_count = 0
    /\ loaded = NotLoaded

\* The count the page shows at the next poll.
CurrentCount == script[Len(polled) + 1]

\* WebDriverWait(...).until(presence_of_element_located(tag)) succeeded.
\* For "article" the awaited tag is the counted tag, so the page shows at
\* least one; the list container says nothing about the cards in it.
ReadyPossible == readyTag = "fe-product-list" \/ script[1] >= 1

WaitReady ==
    /\ loaderPc = "wait"
    /\ ReadyPossible
    /\ loaderPc' = "poll"
    /\ last_article_count' = 0
    /\ UNCHANGED <<script, readyTag, polled, loaded>>
    /\ ScrollFrame

\* WebDriverWait raised TimeoutException: caught by search's except, which
\* returns None.
WaitTimeout ==
    /\ loaderPc = "wait"
    /\ loaderPc' = "timeout"
    /\ UNCHANGED <<script, readyTag, polled, last_article_count, loaded>>
    /\ ScrollFrame

\* The loop's exit test: article_count == last_article_count.
StopScrolling(article_count, last) == article_count = last

\* One pass of the while-loop body up to the break or the assignment.
Poll ==
    /\ loaderPc = "poll"
    /\ Len(polled) < MaxPolls
    /\ LET article_count == CurrentCount IN
        /\ polled' = Append(polled, article_count)
        /\ IF StopScrolling(article_count, last_article_count)
             THEN /\ loaderPc' = "parse"
                  /\ UNCHANGED last_article_count
             ELSE /\ loaderPc' = "scroll"
                  /\ last_article_count' = article_count
    /\ UNCHANGED <<script, readyTag, loaded>>
    /\ ScrollFrame

\* execute_script(scrollTo ...); time.sleep(2)
ScrollAndWait ==
    /\ loaderPc = "scroll"
    /\ loaderPc' = "poll"
    /\ UNCHANGED <<script, readyTag, polled, last_article_count, loaded>>
    /\ ScrollFrame

\* soup = BeautifulSoup(driver.page_source); the page has not been scrolled
\* since the last poll, so it holds the count of that poll.
ParsePage ==
    /\ loaderPc = "parse"
    /\ loaded' = polled[Len(polled)]
    /\ loaderPc' = "done"
    /\ UNCHANGED <<script, readyTag, polled, last_article_count>>
    /\ ScrollFrame

\* The while-loop as the code runs it, without the cap on explored polls, on
\* a page that shows the counts of its script over and over ('polled' holds
\* the polls of the current round of the script).  The loop has one exit,
\* the break on a repeated count.
PollForever ==
    /\ loaderPc = "poll"
    /\ LET article_count == CurrentCount
           stop == StopScrolling(article_count, last_article_count)
       IN
        /\ polled' = IF ~stop /\ Len(polled) + 1 = MaxPolls
                        THEN <<>>
                        ELSE Append(polled, article_count)
        /\ IF stop
             THEN /\ loaderPc' = "parse"
                  /\ UNCHANGED last_article_count
             ELSE /\ loaderPc' = "scroll"
                  /\ last_article_count' = article_count
    /\ UNCHANGED <<script, readyTag, loaded>>
    /\ ScrollFrame

ScrollForeverNext ==
    \/ WaitReady
    \/ WaitTimeout
    \/ PollForever
    \/ ScrollAndWait
    \/ ParsePage

ScrollNext ==
    \/ WaitReady
    \/ WaitTimeout
    \/ Poll
    \/ ScrollAndWait
    \/ ParsePage


(***************************************************************************)
(* Records, files and the dataframe operations                             *)
(***************************************************************************)

\* shops.json and food.json, in file order.
Shops == <<"A101", "Macrocenter">>
Catalog == <<"Sut", "Pirinc", "Sucuk">>

ShopNames == {Shops[i] : i \in 1..Len(Shops)}
Categories == {Catalog[i] : i \in 1..Len(Catalog)}

\* A ProductRecord, reduced to the two columns the pipeline reads:
\* Scraped_Product_ID and Display_Name.  Two rows are the same row iff both
\* columns agree.
Ids == {"p-123", "p-456"}
Names == {"Sut 1L", "Sampuan"}
Rows == [id : Ids, name : Names]

Row(i, n) == [id |-> i, name |-> n]

None == "None"

\* A csv file of the download folder: absent, or present with its rows.
NoFile == [exists |-> FALSE, rows |-> <<>>]
File(rows) == [exists |-> TRUE, rows |-> rows]

\* A table of the store: absent, or present with its rows.
NoTable == [exists |-> FALSE, rows |-> <<>>]
Table(rows) == [exists |-> TRUE, rows |-> rows]

\* All sequences over S of length at most n.
SeqsUpTo(S, n) == UNION {[1..k -> S] : k \in 0..n}

\* pd.concat([a, b], ignore_index=True)
Concat(a, b) == a \o b

RECURSIVE ConcatAll(_)
ConcatAll(dfs) ==
    IF dfs = <<>> THEN <<>> ELSE Concat(Head(dfs), ConcatAll(Tail(dfs)))

\* TRUE iff row r occurs among the first k rows of s.
OccursIn(r, s, k) == \E j \in 1..k : s[j] = r

\* DataFrame.drop_duplicates(): rows equal in all columns, first one kept.
KeepFirst(s) == {i \in 1..Len(s) : ~OccursIn(s[i], s, i - 1)}

RECURSIVE Pick(_, _, _)
Pick(s, keep, i) ==
    IF i > Len(s) THEN <<>>
    ELSE IF i \in keep THEN <<s[i]>> \o Pick(s, keep, i + 1)
    ELSE Pick(s, keep, i + 1)

drop_duplicates(s) == Pick(s, KeepFirst(s), 1)

\* DataFrame.drop_duplicates(subset=[key column], keep='first')
KeepFirstById(s) ==
    {i \in 1..Len(s) : ~\E j \in 1..(i - 1) : s[j].id = s[i].id}

drop_duplicates_by_id(s) == Pick(s, KeepFirstById(s), 1)

\* The rows of s as a set.
RowSet(s) == {s[i] : i \in 1..Len(s)}

\* How many rows of s carry the id.
CountId(s, i) == Cardinality({k \in 1..Len(s) : s[k].id = i})

\* What a search returned: its kind ("raise", None, "list") and its rows.
Result(kind, rows) == [kind |-> kind, rows |-> rows]
Unset == Result("unset", <<>>)

\* An empty download folder, and a run that has searched nothing yet.
NoFiles == [s \in ShopNames |-> [c \in Categories |-> NoFile]]
NoCombined == [s \in ShopNames |-> NoFile]
NoOutcome == [s \in ShopNames |-> [c \in Categories |-> Unset]]

(***************************************************************************)
(* Idle values of each machine's variables                                 *)
(***************************************************************************)

\* Consolidation or merge runs explored by SpecConsolidate and SpecMerge.
MaxRuns == 2

MainIdle ==
    /\ mainPc = "idle"
    /\ shopIdx = 1
    /\ catIdx = 1
    /\ driver = "none"
    /\ outcome = NoOutcome
    /\ log = <<>>

ConfigIdle ==
    /\ scrape = [i \in 1..Len(Shops) |-> TRUE]
    /\ arg_shop_name = None
    /\ classifierMode = "working"
    /\ scraperType = [i \in 1..Len(Shops) |-> "basic"]
    /\ CUSTOM_PROXY = None

DbIdle ==
    /\ dbPc = "idle"
    /\ data = <<>>
    /\ mergeIdx = 1
    /\ pending = <<>>
    /\ table = [s \in ShopNames |-> NoTable]
    /\ metadata = "absent"
    /\ returned = "unset"
    /\ archive = FALSE

HistIdle ==
    /\ tableBefore = [s \in ShopNames |-> NoTable]
    /\ runs = 0
    /\ firstOutput = NoCombined


FanIdle ==
    /\ fanPc = "idle"
    /\ shop_name = Shops[1]
    /\ jobs = <<>>
    /\ jobIdx = 1

\* A request that was never made, and no answer.
NoRequest == [secret_key |-> None, file |-> [present |-> FALSE, filename |-> ""]]
NoResponse == 0

DepositIdle ==
    /\ UPLOAD_SECRET_KEY = None
    /\ database = {}
    /\ request = NoRequest
    /\ response = NoResponse
    /\ served = 0
    /\ unzipCalls = 0

\* A span of a price fragment: absent, text that float() rejects, or a
\* price (in kurus).
Span(kind, kurus) == [kind |-> kind, kurus |-> kurus]
AbsentSpan == Span("absent", 0)
NoPrices == [discount |-> 0, price |-> 0, returned |-> FALSE]

PriceIdle ==
    /\ priceShop = None
    /\ price_tag = [promotion |-> FALSE, first |-> AbsentSpan, second |-> AbsentSpan]
    /\ prices = NoPrices

SearchIdle ==
    /\ adapter = None
    /\ resultPages = <<>>
    /\ searchPc = "idle"
    /\ page_num = 1
    /\ visited = <<>>
    /\ scraped_data = <<>>
    /\ retrieved = Unset

PartIdle ==
    /\ products_categories_to_search = <<>>
    /\ slices = <<>>
    /\ position = <<>>
    /\ ended = <<>>
    /\ searches = <<>>
    /\ writers = [c \in Categories |-> {}]
(***************************************************************************)
(* ProductClassifier and the classifier filter                             *)
(***************************************************************************)

RUN_PRODUCT_CLASSIFIER == TRUE

\* What the classifier capability does during one run:
\*   "working"        the model is loaded and inference answers
\*   "predict_fails"  the model is loaded and every inference call raises
\*   "not_loaded"     the model folder is missing or loading it raised, so
\*                    __init__ never assigned self.session
ClassifierModes == {"working", "predict_fails", "not_loaded"}

\* predict's outcome: the exception it raised, or its answer.
Raised == [raised |-> TRUE, label |-> 0, confidence |-> 0]
Answer(label, confidence) == [raised |-> FALSE, label |-> label, confidence |-> confidence]

\* The loaded model's answer for a display name (id2label of the argmax).
\* Confidence is counted in tenths.
ModelResult(text) ==
    IF text = "Sampuan" THEN Answer(0, 6) ELSE Answer(1, 9)

\* A predict that answers "non-food" whenever it cannot run the model.
PredictRejectsOnFailure(mode, text) ==
    IF mode = "working" THEN ModelResult(text) ELSE Answer(0, 0)

\* ProductClassifier.predict: the test of self.session is outside the try,
\* so it raises AttributeError when __init__ assigned no session; a failing
\* inference is caught and answered with the default {label: 1}.
predict(mode, text) ==
    IF mode = "not_loaded" THEN Raised
    ELSE IF mode = "predict_fails" THEN Answer(1, 0)
    ELSE ModelResult(text)

\* A filter_nonfood that lets the products pass whose negative label has a
\* confidence in the range it logs a warning for (0.2 to 0.7).
filter_nonfood_keeping_uncertain(list_of_products, mode) ==
    [raised |-> \E i \in 1..Len(list_of_products) :
                    predict(mode, list_of_products[i]).raised,
     food   |-> [i \in 1..Len(list_of_products) |->
                    IF \/ predict(mode, list_of_products[i]).label = 1
                       \/ predict(mode, list_of_products[i]).confidence \in 2..7
                      THEN 1 ELSE 0]]

\* filter_nonfood: one 0/1 label per product, or the exception predict raised.
filter_nonfood(list_of_products, mode) ==
    [raised |-> \E i \in 1..Len(list_of_products) :
                    predict(mode, list_of_products[i]).raised,
     food   |-> [i \in 1..Len(list_of_products) |->
                    IF predict(mode, list_of_products[i]).label = 1 THEN 1 ELSE 0]]

\* One pass of the loop body of filtering_all_combined_files over one
\* combined.csv: the rows the file holds afterwards.  An exception leaves
\* the file as it was (the write is the last statement of the try).
FilteredFile(rows, mode) ==
    LET food_labels == filter_nonfood([i \in 1..Len(rows) |-> rows[i].name], mode)
    IN  IF food_labels.raised THEN rows
        ELSE Pick(rows, {i \in 1..Len(rows) : food_labels.food[i] = 1}, 1)

\* filtering_all_combined_files: every combined.csv under the download
\* folder is filtered in place.
FilteredAll(comb, mode) ==
    IF ~RUN_PRODUCT_CLASSIFIER THEN comb
    ELSE [s \in ShopNames |->
            IF ~comb[s].exists THEN NoFile
            ELSE File(FilteredFile(comb[s].rows, mode))]

(***************************************************************************)
(* combine_and_filter_csvs / combine_and_deduplicate_csvs                  *)
(***************************************************************************)

\* rglob('*.csv') minus combined.csv: the category files of the shop's
\* directory, in directory order (taken to be catalog order).
RECURSIVE CsvFilesFrom(_, _)
CsvFilesFrom(dir, k) ==
    IF k > Len(Catalog) THEN <<>>
    ELSE IF ~dir[Catalog[k]].exists THEN CsvFilesFrom(dir, k + 1)
    ELSE <<dir[Catalog[k]].rows>> \o CsvFilesFrom(dir, k + 1)

CsvFilesWithCombined(dir, comb) ==
    CsvFilesFrom(dir, 1) \o (IF comb.exists THEN <<comb.rows>> ELSE <<>>)

\* The dataframes the function reads: the output of an earlier run is not
\* among them.
csv_files(dir, comb) == CsvFilesFrom(dir, 1)

\* run_scraping.combine_and_filter_csvs: the combined.csv the directory holds
\* after the call.  Nothing is written when no csv file is found.
combine_and_filter_csvs(dir, comb) ==
    IF csv_files(dir, comb) = <<>> THEN comb
    ELSE File(ConcatAll(csv_files(dir, comb)))

\* scrapers/scrape_runner.combine_and_deduplicate_csvs (also routes.py): as
\* above, and duplicates of the id column are dropped, first one kept.
combine_and_deduplicate_csvs(dir, comb) ==
    IF csv_files(dir, comb) = <<>> THEN comb
    ELSE File(drop_duplicates_by_id(ConcatAll(csv_files(dir, comb))))

(***************************************************************************)
(* run_scraping.main and scrape_categories                                 *)
(***************************************************************************)

\* The page a search of one category finds when it loads: search returns it
\* whole, or an empty list when the shop lists nothing.
PageOf(category) ==
    IF category = "Pirinc" THEN <<Row("p-456", "Sampuan")>>
    ELSE <<Row("p-123", "Sut 1L")>>

\* What scraper.search can do for one category:
\*   "raise"  driver.get raised (it is outside search's try)
\*   None     the ready wait timed out: search caught it and returned None
\*   rows     the list of scraped rows (possibly empty)
SearchReturns(category) ==
    {Result("raise", <<>>), Result(None, <<>>),
     Result("list", <<>>), Result("list", PageOf(category))}

LogRec(shop, category, msg) == [shop |-> shop, category |-> category, msg |-> msg]


MainFrame == UNCHANGED <<scrollVars, scrape, arg_shop_name, scraperType, CUSTOM_PROXY, histVars, fanVars, depositVars, priceVars, searchVars, partVars>>

\* for shop in shops: the loop is over.
EndShops ==
    /\ mainPc = "shop_loop"
    /\ shopIdx > Len(Shops)
    /\ mainPc' = "filter"
    /\ UNCHANGED <<shopIdx, catIdx, driver, outcome, log, fileVars, dbVars>>
    /\ UNCHANGED classifierMode
    /\ MainFrame

\* shop['scrape'] is false (logged), or the shop is not the one asked for.
SkipShop ==
    /\ mainPc = "shop_loop"
    /\ shopIdx <= Len(Shops)
    /\ \/ ~scrape[shopIdx]
       \/ arg_shop_name # None /\ arg_shop_name # Shops[shopIdx]
    /\ shopIdx' = shopIdx + 1
    /\ log' = IF ~scrape[shopIdx]
                THEN Append(log, LogRec(Shops[shopIdx], None, "skipping shop"))
                ELSE log
    /\ UNCHANGED <<mainPc, catIdx, driver, outcome, fileVars, dbVars>>
    /\ UNCHANGED classifierMode
    /\ MainFrame

StartShop ==
    /\ mainPc = "shop_loop"
    /\ shopIdx <= Len(Shops)
    /\ scrape[shopIdx]
    /\ arg_shop_name = None \/ arg_shop_name = Shops[shopIdx]
    /\ mainPc' = "get_scraper"
    /\ UNCHANGED <<shopIdx, catIdx, driver, outcome, log, fileVars, dbVars>>
    /\ UNCHANGED classifierMode
    /\ MainFrame

\* get_scraper: _create_driver returned a driver; BaseScraper.__init__ sets
\* shop_name and base_url and the subclass builds its search url.
GetScraper ==
    /\ mainPc = "get_scraper"
    /\ scraperType[shopIdx] = "basic"
    /\ driver' = "open"
    /\ catIdx' = 1
    /\ mainPc' = "scrape"
    /\ UNCHANGED <<shopIdx, outcome, log, fileVars, dbVars>>
    /\ UNCHANGED classifierMode
    /\ MainFrame

\* Where main continues when _create_driver returned None.
\* BaseScraper.__init__ logs and assigns no attribute; the subclass __init__
\* then reads self.base_url, which raises AttributeError.  Neither get_scraper
\* nor main catches it: the process ends with the traceback.
AfterDriverFailure == "uncaught"

GetScraperDriverFails ==
    /\ mainPc = "get_scraper"
    /\ scraperType[shopIdx] = "basic"
    /\ driver' = "none"
    /\ log' = Append(log, LogRec(Shops[shopIdx], None, "failed to create webdriver"))
    /\ mainPc' = AfterDriverFailure
    /\ UNCHANGED <<shopIdx, catIdx, outcome, fileVars, dbVars>>
    /\ UNCHANGED classifierMode
    /\ MainFrame

\* get_scraper of a shop whose scraper.type is not 'basic':
\* AdvancedBaseScraper.__init__ found CUSTOM_PROXY and set the attributes.
GetAdvancedScraper ==
    /\ mainPc = "get_scraper"
    /\ scraperType[shopIdx] = "advanced"
    /\ CUSTOM_PROXY # None
    /\ catIdx' = 1
    /\ mainPc' = "scrape"
    /\ UNCHANGED <<shopIdx, driver, outcome, log, fileVars, dbVars>>
    /\ UNCHANGED classifierMode
    /\ MainFrame

\* Where main continues when CUSTOM_PROXY is None.
\* AdvancedBaseScraper.__init__ takes the else branch, whose message reads
\* self.shop_name before any attribute was assigned: AttributeError, raised
\* while the message is built, so nothing is logged.  Neither get_scraper nor
\* main catches it: the process ends with the traceback.
AfterProxyFailure == "uncaught"

GetScraperProxyUnset ==
    /\ mainPc = "get_scraper"
    /\ scraperType[shopIdx] = "advanced"
    /\ CUSTOM_PROXY = None
    /\ mainPc' = AfterProxyFailure
    /\ UNCHANGED <<shopIdx, catIdx, driver, outcome, log, fileVars, dbVars>>
    /\ UNCHANGED classifierMode
    /\ MainFrame

\* save_to_csv: the category file after the call, and what it logs.
save_to_csv(old, df) == IF Len(df) < 1 THEN old ELSE File(df)

\* Where the for-loop of scrape_categories continues after a category:
\* the try/except is inside the loop, so always at the next entry.
NextCategoryAbortOnFailure(k, result) ==
    IF result.kind \in {"raise", None} THEN Len(Catalog) + 1 ELSE k + 1

NextCategory(k, result) == k + 1

\* The download folder after one iteration of the for-loop of
\* scrape_categories whose search did 'result'; pd.DataFrame(None) is empty.
FilesAfter(dir, shop, cat, result) ==
    IF result.kind = "raise" THEN dir
    ELSE [dir EXCEPT ![shop][cat] = save_to_csv(@, result.rows)]

\* The lines that iteration writes to the log: the scraper's own error line
\* when search caught a failure, and the orchestrator's lines.
LogAfter(shop, cat, result) ==
    <<LogRec(shop, cat, "waiting")>>
    \o (IF result.kind = "raise"
          THEN <<LogRec(shop, cat, "exception occurred")>>
        ELSE (IF result.kind = None
                THEN <<LogRec(shop, cat, "search error")>>
                ELSE <<>>)
             \o (IF Len(result.rows) < 1
                   THEN <<LogRec(shop, cat, "no data to save")>>
                   ELSE <<>>)
             \o <<LogRec(shop, cat, "file created")>>)

\* One iteration of the for-loop of scrape_categories.
ScrapeCategory ==
    /\ mainPc = "scrape"
    /\ catIdx <= Len(Catalog)
    /\ LET shop == Shops[shopIdx]
           cat == Catalog[catIdx]
       IN \E result \in SearchReturns(cat) :
            /\ outcome' = [outcome EXCEPT ![shop][cat] = result]
            /\ files' = FilesAfter(files, shop, cat, result)
            /\ log' = log \o LogAfter(shop, cat, result)
            /\ catIdx' = NextCategory(catIdx, result)
    /\ UNCHANGED <<mainPc, shopIdx, driver, combined, dbVars>>
    /\ UNCHANGED classifierMode
    /\ MainFrame

\* A consolidation that moves the category files into combined.csv instead
\* of copying them.
CombineMovingSources ==
    /\ mainPc = "scrape"
    /\ catIdx > Len(Catalog)
    /\ LET shop == Shops[shopIdx]
       IN /\ combined' = [combined EXCEPT ![shop] = combine_and_filter_csvs(files[shop], @)]
          /\ files' = [files EXCEPT ![shop] = [c \in Categories |-> NoFile]]
    /\ driver' = "none"
    /\ shopIdx' = shopIdx + 1
    /\ mainPc' = "shop_loop"
    /\ UNCHANGED <<catIdx, outcome, log, dbVars>>
    /\ UNCHANGED classifierMode
    /\ MainFrame

\* A shop loop without 'del scraper': the driver stays open when main goes
\* on to the next shop.
CombineWithoutDel ==
    /\ mainPc = "scrape"
    /\ catIdx > Len(Catalog)
    /\ LET shop == Shops[shopIdx]
       IN combined' = [combined EXCEPT ![shop] = combine_and_filter_csvs(files[shop], @)]
    /\ shopIdx' = shopIdx + 1
    /\ mainPc' = "shop_loop"
    /\ UNCHANGED <<catIdx, driver, outcome, log, files, dbVars>>
    /\ UNCHANGED classifierMode
    /\ MainFrame

\* scrape_categories returned; combine_and_filter_csvs of the shop's
\* directory; del scraper (the destructor quits the driver).
Combine ==
    /\ mainPc = "scrape"
    /\ catIdx > Len(Catalog)
    /\ LET shop == Shops[shopIdx]
       IN combined' = [combined EXCEPT ![shop] = combine_and_filter_csvs(files[shop], @)]
    /\ driver' = "none"
    /\ shopIdx' = shopIdx + 1
    /\ mainPc' = "shop_loop"
    /\ UNCHANGED <<catIdx, outcome, log, files, dbVars>>
    /\ UNCHANGED classifierMode
    /\ MainFrame

\* filtering_all_combined_files: ProductClassifier() is constructed (what the
\* capability does from here on is the environment's choice) and every
\* combined.csv is filtered; then main calls create_sqlite_from_csvs.
Filter ==
    /\ mainPc = "filter"
    /\ \E mode \in ClassifierModes :
         /\ classifierMode' = mode
         /\ combined' = FilteredAll(combined, mode)
    /\ mainPc' = "merge"
    /\ dbPc' = "start"
    /\ UNCHANGED <<shopIdx, catIdx, driver, outcome, log, files>>
    /\ UNCHANGED <<data, mergeIdx, pending, table, metadata, returned, archive>>
    /\ MainFrame

\* if db_file_path: compress_db(db_file_path)
Compress ==
    /\ mainPc = "merge"
    /\ dbPc = "returned"
    /\ archive' = (archive \/ returned = "db_file")
    /\ mainPc' = "done"
    /\ dbPc' = "idle"
    /\ UNCHANGED <<shopIdx, catIdx, driver, outcome, log, fileVars>>
    /\ UNCHANGED <<data, mergeIdx, pending, table, metadata, returned>>
    /\ UNCHANGED classifierMode
    /\ MainFrame

(***************************************************************************)
(* create_sqlite_from_csvs                                                 *)
(*                                                                         *)
(* DataFrame.to_sql(name, con, if_exists='replace') on a sqlite3           *)
(* connection drops the table, creates it and inserts the rows; the drop   *)
(* and the create are committed when they execute, the inserts are one     *)
(* transaction.  Each is a step here, so that a failure or a crash between *)
(* them is a state of the model.                                           *)
(***************************************************************************)

DbFrame == UNCHANGED <<scrollVars, configVars, mainVars, fileVars, fanVars, depositVars, priceVars, searchVars, partVars>>

\* The dataframes loaded into 'data': one per shop that has a combined.csv,
\* in glob order (taken to be the order of shops.json).
RECURSIVE LoadedFrom(_, _)
LoadedFrom(comb, k) ==
    IF k > Len(Shops) THEN <<>>
    ELSE IF comb[Shops[k]].exists
           THEN <<[shop |-> Shops[k], df |-> comb[Shops[k]].rows]>> \o LoadedFrom(comb, k + 1)
    ELSE LoadedFrom(comb, k + 1)

\* The table one iteration of the loop over data.items() is to leave:
\* existing rows first, then the new ones, exact duplicates dropped; a
\* table that does not exist yet is created from the dataframe as it is.
MergedTable(existing, df) ==
    IF existing.exists
      THEN Table(drop_duplicates(Concat(existing.rows, df)))
      ELSE Table(df)

\* Entry: csv_files is empty, nothing is merged and None is returned.
MergeNothing ==
    /\ dbPc = "start"
    /\ LoadedFrom(combined, 1) = <<>>
    /\ returned' = None
    /\ dbPc' = "returned"
    /\ data' = <<>>
    /\ mergeIdx' = 1
    /\ tableBefore' = table
    /\ UNCHANGED firstOutput
    /\ UNCHANGED <<pending, table, metadata, archive, runs>>
    /\ DbFrame

\* Entry: the combined.csv files are read into 'data' and the store is opened.
MergeStart ==
    /\ dbPc = "start"
    /\ LoadedFrom(combined, 1) # <<>>
    /\ data' = LoadedFrom(combined, 1)
    /\ mergeIdx' = 1
    /\ returned' = "unset"
    /\ dbPc' = "shop"
    /\ tableBefore' = table
    /\ UNCHANGED firstOutput
    /\ UNCHANGED <<pending, table, metadata, archive, runs>>
    /\ DbFrame

\* Loop head for one shop: the sqlite_master query, and for an existing
\* table read_sql_query, concat and drop_duplicates.
MergeCheck ==
    /\ dbPc = "shop"
    /\ mergeIdx <= Len(data)
    /\ LET shop == data[mergeIdx].shop
       IN /\ pending' = MergedTable(table[shop], data[mergeIdx].df).rows
          /\ dbPc' = IF table[shop].exists THEN "drop" ELSE "create"
    /\ UNCHANGED <<data, mergeIdx, table, metadata, returned, archive, histVars>>
    /\ DbFrame

\* to_sql, if_exists='replace': DROP TABLE.
MergeDrop ==
    /\ dbPc = "drop"
    /\ table' = [table EXCEPT ![data[mergeIdx].shop] = NoTable]
    /\ dbPc' = "create"
    /\ UNCHANGED <<data, mergeIdx, pending, metadata, returned, archive, histVars>>
    /\ DbFrame

\* to_sql: CREATE TABLE.
MergeCreate ==
    /\ dbPc = "create"
    /\ table' = [table EXCEPT ![data[mergeIdx].shop] = Table(<<>>)]
    /\ dbPc' = "insert"
    /\ UNCHANGED <<data, mergeIdx, pending, metadata, returned, archive, histVars>>
    /\ DbFrame

\* to_sql: the INSERTs and their commit; the loop moves to the next shop.
MergeInsert ==
    /\ dbPc = "insert"
    /\ table' = [table EXCEPT ![data[mergeIdx].shop] = Table(pending)]
    /\ mergeIdx' = mergeIdx + 1
    /\ dbPc' = "shop"
    /\ UNCHANGED <<data, pending, metadata, returned, archive, histVars>>
    /\ DbFrame

\* The loop is over: return db_file (the finally clause still runs).
MergeReturn ==
    /\ dbPc = "shop"
    /\ mergeIdx > Len(data)
    /\ returned' = "db_file"
    /\ dbPc' = "finally"
    /\ UNCHANGED <<data, mergeIdx, pending, table, metadata, archive, histVars>>
    /\ DbFrame

\* The database operation at hand raises; 'except Exception' logs it and the
\* function goes on to its finally clause and returns None.
MergeFail ==
    /\ dbPc \in {"shop", "drop", "create", "insert"}
    /\ mergeIdx <= Len(data)
    /\ returned' = None
    /\ dbPc' = "finally"
    /\ UNCHANGED <<data, mergeIdx, pending, table, metadata, archive, histVars>>
    /\ DbFrame

\* The metadata tables after a rewrite that raised: missing when the store
\* had none, otherwise what an earlier run wrote (one of the two may already
\* have been replaced), not the rows of the files of this run.
MetadataAfterFailure(old) == IF old = "absent" THEN "absent" ELSE "stale"

\* finally: the two metadata tables are rewritten (a failure there is caught
\* and logged) and the connection is closed.
MergeFinally ==
    /\ dbPc = "finally"
    /\ \E ok \in BOOLEAN :
         metadata' = IF ok THEN "current" ELSE MetadataAfterFailure(metadata)
    /\ dbPc' = "returned"
    /\ UNCHANGED <<data, mergeIdx, pending, table, returned, archive, histVars>>
    /\ DbFrame

\* The process dies while the store is open: what was committed stays.
Crash ==
    /\ dbPc \in {"shop", "drop", "create", "insert", "finally"}
    /\ dbPc' = "crashed"
    /\ UNCHANGED <<data, mergeIdx, pending, table, metadata, returned, archive, histVars>>
    /\ DbFrame

\* The consolidated datasets a later run of the pipeline finds: the first
\* shop's combined.csv is absent or holds up to two rows, the second shop's
\* is absent or holds one row.
MergeRows == {Row("p-123", "Sut 1L"), Row("p-123", "Sampuan"), Row("p-456", "Sut 1L")}
MergeDatasets ==
    {c \in [ShopNames -> {NoFile} \cup {File(r) : r \in SeqsUpTo(MergeRows, 2)}] :
        c[Shops[2]] \in {NoFile, File(<<Row("p-456", "Sut 1L")>>)}}

\* The pipeline runs again (the next cron run of the day, also after a
\* crash): create_sqlite_from_csvs is entered with that run's datasets.
NewRun ==
    /\ dbPc \in {"returned", "crashed"}
    /\ runs + 1 < MaxRuns
    /\ runs' = runs + 1
    /\ combined' \in MergeDatasets
    /\ dbPc' = "start"
    /\ UNCHANGED <<data, mergeIdx, pending, table, metadata, returned, archive>>
    /\ UNCHANGED <<tableBefore, firstOutput, files>>
    /\ UNCHANGED <<scrollVars, configVars, mainVars, fanVars, depositVars, priceVars, searchVars, partVars>>

MergeNext ==
    \/ MergeNothing
    \/ MergeStart
    \/ MergeCheck
    \/ MergeDrop
    \/ MergeCreate
    \/ MergeInsert
    \/ MergeReturn
    \/ MergeFail
    \/ MergeFinally
    \/ Crash
    \/ NewRun

MergeInit ==
    /\ ScrollIdle
    /\ ConfigIdle
    /\ MainIdle
    /\ files = NoFiles
    /\ combined \in MergeDatasets
    /\ dbPc = "start"
    /\ data = <<>>
    /\ mergeIdx = 1
    /\ pending = <<>>
    /\ table = [s \in ShopNames |-> NoTable]
    /\ metadata = "absent"
    /\ returned = "unset"
    /\ archive = FALSE
    /\ HistIdle
    /\ FanIdle
    /\ DepositIdle
    /\ PriceIdle
    /\ SearchIdle
    /\ PartIdle

(***************************************************************************)
(* Repeated consolidation: main's consolidation steps run again on the     *)
(* same PerCategoryFiles (a later run of the same day)                     *)
(***************************************************************************)

ConsolidateFrame ==
    UNCHANGED <<scrollVars, configVars, shopIdx, catIdx, driver, outcome, log,
                files, dbVars, tableBefore, fanVars, depositVars, priceVars, searchVars, partVars>>

\* combine_and_filter_csvs of every shop directory.
RunCombine ==
    /\ mainPc = "combine"
    /\ combined' = [s \in ShopNames |-> combine_and_filter_csvs(files[s], combined[s])]
    /\ mainPc' = "filter"
    /\ UNCHANGED <<runs, firstOutput>>
    /\ ConsolidateFrame

\* filtering_all_combined_files; main goes on to the merge step.
RunFilter ==
    /\ mainPc = "filter"
    /\ combined' = FilteredAll(combined, classifierMode)
    /\ mainPc' = "merge"
    /\ runs' = runs + 1
    /\ firstOutput' = IF runs = 0 THEN combined' ELSE firstOutput
    /\ ConsolidateFrame

\* The next run of the pipeline finds the same PerCategoryFiles.
RunAgain ==
    /\ mainPc = "merge"
    /\ runs < MaxRuns
    /\ mainPc' = "combine"
    /\ UNCHANGED <<combined, runs, firstOutput>>
    /\ ConsolidateFrame

ConsolidateNext ==
    \/ RunCombine
    \/ RunFilter
    \/ RunAgain

\* The PerCategoryFiles save_to_csv can have left for one category: none,
\* or a file of one or two rows (it never writes an empty one).  One result
\* page lists a product once, so the ids within one file differ; the same
\* product can be found by the searches of two categories.
DistinctIds(r) == \A j, k \in 1..Len(r) : r[j].id = r[k].id => j = k
CategoryFiles ==
    {NoFile} \cup {File(r) : r \in {q \in SeqsUpTo(Rows, 2) \ {<<>>} : DistinctIds(q)}}

ConsolidateInit ==
    /\ ScrollIdle
    /\ scrape = [i \in 1..Len(Shops) |-> TRUE]
    /\ arg_shop_name = None
    /\ scraperType = [i \in 1..Len(Shops) |-> "basic"]
    /\ CUSTOM_PROXY = None
    /\ classifierMode \in ClassifierModes
    /\ mainPc = "combine"
    /\ shopIdx = 1
    /\ catIdx = 1
    /\ driver = "none"
    /\ outcome = NoOutcome
    /\ log = <<>>
    /\ \E dir \in [Categories -> CategoryFiles] :
         files = [s \in ShopNames |-> IF s = Shops[1] THEN dir ELSE NoFiles[s]]
    /\ combined = NoCombined
    /\ DbIdle
    /\ HistIdle
    /\ FanIdle
    /\ DepositIdle
    /\ PriceIdle
    /\ SearchIdle
    /\ PartIdle

(***************************************************************************)
(* routes.scrape: the fan-out run of one shop                              *)
(*                                                                         *)
(* The catalog is split into chunks, one worker process per chunk runs     *)
(* scrape_category, the handler joins every process and then consolidates  *)
(* the shop's directory.  Workers and handler interleave freely.           *)
(***************************************************************************)

\* Number of sections np.array_split is asked for.
CHUNK_SIZE == 1

\* Largest number of worker processes explored.
MaxChunks == 2

FanFrame == UNCHANGED <<scrollVars, configVars, mainVars, dbVars, histVars, depositVars, priceVars, searchVars, partVars>>

Min(a, b) == IF a < b THEN a ELSE b

\* A split into n sections that all take the longer size: neighbouring
\* sections share an entry when len % n is not 0.
array_split_overlapping(ary, n) ==
    [i \in 1..n |->
        LET each == Len(ary) \div n
            extras == Len(ary) % n
            first == (i - 1) * each
            size == each + (IF extras > 0 THEN 1 ELSE 0)
        IN SubSeq(ary, first + 1, Min(first + size, Len(ary)))]

\* np.array_split(ary, n): n contiguous sections, the first len % n of them
\* one entry longer than the others.
array_split(ary, n) ==
    [i \in 1..n |->
        LET each == Len(ary) \div n
            extras == Len(ary) % n
            first == (i - 1) * each + Min(i - 1, extras)
            size == each + (IF i <= extras THEN 1 ELSE 0)
        IN SubSeq(ary, first + 1, first + size)]

\* multiprocessing.Process(target=scrape_category, args=(category_slice, ...)):
\* not started yet; k is the position of the worker's for-loop and df the
\* dataframe its save_to_csv is writing.
Process(category_slice) ==
    [state |-> "initial", category_slice |-> category_slice, k |-> 1, df |-> <<>>]

Terminated(job) == job.state \in {"exited", "failed"}

JoinReturnsAtOnce(job) == TRUE

\* job.join(): returns once the process has terminated, however it ended.
JoinReturns(job) == Terminated(job)

\* What to_csv has put on disk while it is still writing: the file exists
\* and lacks the last row.
PartialWrite(df) == File(SubSeq(df, 1, Len(df) - 1))

\* scrape(): read the catalog and build one process per section.
SplitCatalog ==
    /\ fanPc = "split"
    /\ \E n \in CHUNK_SIZE..MaxChunks :
         jobs' = [i \in 1..n |-> Process(array_split(Catalog, n)[i])]
    /\ jobIdx' = 1
    /\ fanPc' = "start"
    /\ UNCHANGED <<shop_name, fileVars>>
    /\ FanFrame

\* for job in jobs: job.start()
StartJob ==
    /\ fanPc = "start"
    /\ jobIdx <= Len(jobs)
    /\ jobs' = [jobs EXCEPT ![jobIdx].state = "started"]
    /\ jobIdx' = jobIdx + 1
    /\ UNCHANGED <<fanPc, shop_name, fileVars>>
    /\ FanFrame

\* The start loop is over; the join loop begins.
StartDone ==
    /\ fanPc = "start"
    /\ jobIdx > Len(jobs)
    /\ fanPc' = "join"
    /\ jobIdx' = 1
    /\ UNCHANGED <<shop_name, jobs, fileVars>>
    /\ FanFrame

\* for job in jobs: job.join()
JoinJob ==
    /\ fanPc = "join"
    /\ jobIdx <= Len(jobs)
    /\ JoinReturns(jobs[jobIdx])
    /\ jobIdx' = jobIdx + 1
    /\ UNCHANGED <<fanPc, shop_name, jobs, fileVars>>
    /\ FanFrame

\* The join loop is over.
JoinDone ==
    /\ fanPc = "join"
    /\ jobIdx > Len(jobs)
    /\ fanPc' = "combine"
    /\ UNCHANGED <<shop_name, jobs, jobIdx, fileVars>>
    /\ FanFrame

\* combine_and_deduplicate_csvs of the shop's directory of the day.
FanCombine ==
    /\ fanPc = "combine"
    /\ combined' = [combined EXCEPT ![shop_name] =
                        combine_and_deduplicate_csvs(files[shop_name], @)]
    /\ fanPc' = "done"
    /\ UNCHANGED <<shop_name, jobs, jobIdx, files>>
    /\ FanFrame

\* scrape_category, head of the for-loop: the slice is exhausted and the
\* process exits, or a scraper is built for the category, or the shop is
\* unknown and the ValueError ends the process (except: raise).
WorkerLoop(w) ==
    /\ jobs[w].state = "started"
    /\ jobs' = [jobs EXCEPT ![w].state =
                   IF jobs[w].k > Len(jobs[w].category_slice) THEN "exited"
                   ELSE IF shop_name = "A101" THEN "searching"
                   ELSE "failed"]
    /\ UNCHANGED <<fanPc, shop_name, jobIdx, fileVars>>
    /\ FanFrame

\* scraper.search(category) and the entry of save_to_csv: an exception ends
\* the process, no rows are "No data to save", rows open the category file.
WorkerSearch(w) ==
    /\ jobs[w].state = "searching"
    /\ LET category == jobs[w].category_slice[jobs[w].k]
       IN \E result \in SearchReturns(category) :
            IF result.kind = "raise"
              THEN /\ jobs' = [jobs EXCEPT ![w].state = "failed"]
                   /\ UNCHANGED files
            ELSE IF Len(result.rows) < 1
              THEN /\ jobs' = [jobs EXCEPT ![w].state = "started", ![w].k = @ + 1]
                   /\ UNCHANGED files
            ELSE /\ jobs' = [jobs EXCEPT ![w].state = "writing", ![w].df = result.rows]
                 /\ files' = [files EXCEPT ![shop_name][category] = PartialWrite(result.rows)]
    /\ UNCHANGED <<fanPc, shop_name, jobIdx, combined>>
    /\ FanFrame

\* df.to_csv completes, or raises IOError, which save_to_csv catches and
\* prints; the loop goes on to the next category either way.
WorkerWrite(w) ==
    /\ jobs[w].state = "writing"
    /\ LET category == jobs[w].category_slice[jobs[w].k]
       IN \E written \in BOOLEAN :
            files' = IF written
                       THEN [files EXCEPT ![shop_name][category] = File(jobs[w].df)]
                       ELSE files
    /\ jobs' = [jobs EXCEPT ![w].state = "started", ![w].k = @ + 1, ![w].df = <<>>]
    /\ UNCHANGED <<fanPc, shop_name, jobIdx, combined>>
    /\ FanFrame

FanNext ==
    \/ SplitCatalog
    \/ StartJob
    \/ StartDone
    \/ JoinJob
    \/ JoinDone
    \/ FanCombine
    \/ \E w \in 1..Len(jobs) : WorkerLoop(w)
    \/ \E w \in 1..Len(jobs) : WorkerSearch(w)
    \/ \E w \in 1..Len(jobs) : WorkerWrite(w)

\* A request for /scrape/<shop_name> arrives; the download folder of the
\* day is empty.
FanInit ==
    /\ ScrollIdle
    /\ ConfigIdle
    /\ MainIdle
    /\ files = NoFiles
    /\ combined = NoCombined
    /\ DbIdle
    /\ HistIdle
    /\ fanPc = "split"
    /\ shop_name \in ShopNames
    /\ jobs = <<>>
    /\ jobIdx = 1
    /\ DepositIdle
    /\ PriceIdle
    /\ SearchIdle
    /\ PartIdle

(***************************************************************************)
(* scrape()'s split of a catalog, and the workers' searches and writes     *)
(*                                                                         *)
(* The catalog is the column Turkish_names of food.csv: a pandas Series,   *)
(* here the sequence of its entries [row, Turkish_names], row being the    *)
(* index label.  Nothing in scrape() requires the names to differ.         *)
(***************************************************************************)

PartFrame ==
    UNCHANGED <<scrollVars, configVars, mainVars, fileVars, dbVars, histVars,
                fanVars, depositVars, priceVars, searchVars>>

\* Cap on the catalog rows.
MaxRows == 3

\* The catalogs: every column of up to MaxRows names.
Series(names) == [i \in 1..Len(names) |-> [row |-> i, Turkish_names |-> names[i]]]
Catalogs == {Series(names) : names \in SeqsUpTo(Categories, MaxRows)}

\* save_to_csv: Path(filepath) / shop_name / today_str / filename with
\* filename = category + '.csv'.  filepath, shop and day are those of the
\* run, so the path is told by the category name.
OutputPath(category) == category

\* scrape() up to the start of the processes: the catalog is read and split.
SplitAny ==
    /\ slices = <<>>
    /\ \E n \in CHUNK_SIZE..MaxChunks :
         /\ slices' = array_split(products_categories_to_search, n)
         /\ position' = [w \in 1..n |-> 1]
         /\ ended' = [w \in 1..n |-> "running"]
    /\ UNCHANGED <<products_categories_to_search, searches, writers>>
    /\ PartFrame

\* One pass of the for-loop of scrape_category in worker w: the search of
\* the next entry of its slice raises (the process ends), returns nothing
\* (save_to_csv writes nothing), or returns rows that save_to_csv writes.
\* After the last entry the process exits.
WorkerPass(w) ==
    /\ w \in 1..Len(slices)
    /\ ended[w] = "running"
    /\ IF position[w] > Len(slices[w])
         THEN /\ ended' = [ended EXCEPT ![w] = "exited"]
              /\ UNCHANGED <<position, searches, writers>>
         ELSE LET category == slices[w][position[w]]
              IN /\ searches' = [searches EXCEPT ![category.row] = @ + 1]
                 /\ \E kind \in {"raise", "empty", "rows"} :
                      /\ ended' = [ended EXCEPT ![w] = IF kind = "raise" THEN "failed" ELSE @]
                      /\ position' = [position EXCEPT ![w] = IF kind = "raise" THEN @ ELSE @ + 1]
                      /\ writers' = IF kind = "rows"
                                      THEN [writers EXCEPT ![OutputPath(category.Turkish_names)] =
                                               @ \cup {[worker |-> w, row |-> category.row]}]
                                      ELSE writers
    /\ UNCHANGED <<products_categories_to_search, slices>>
    /\ PartFrame

PartNext ==
    \/ SplitAny
    \/ \E w \in 1..MaxChunks : WorkerPass(w)

PartInit ==
    /\ ScrollIdle
    /\ ConfigIdle
    /\ MainIdle
    /\ files = NoFiles
    /\ combined = NoCombined
    /\ DbIdle
    /\ HistIdle
    /\ FanIdle
    /\ DepositIdle
    /\ PriceIdle
    /\ SearchIdle
    /\ products_categories_to_search \in Catalogs
    /\ slices = <<>>
    /\ position = <<>>
    /\ ended = <<>>
    /\ searches = [i \in 1..Len(products_categories_to_search) |-> 0]
    /\ writers = [c \in Categories |-> {}]

(***************************************************************************)
(* Frontend: upload_secure and unzip_new_db_file                           *)
(***************************************************************************)

\* Requests the deposit machine serves.
MaxRequests == 3

DepositFrame ==
    UNCHANGED <<scrollVars, configVars, mainVars, fileVars, dbVars, histVars, fanVars, priceVars, searchVars, partVars>>

\* File names that can be in the database folder.
Archives == {"d1.db.7z", "d2.db.7z"}
Stores == {"d1.db", "d2.db"}
FolderNames == Archives \cup Stores \cup {"notes.txt"}

\* f.endswith('.7z'), f.endswith('.db')
IsArchive(f) == f \in Archives
IsStore(f) == f \in Stores

\* Position of a name in sorted() order (the paths share their directory).
SortKey(f) ==
    CASE f = "d1.db" -> 1
      [] f = "d1.db.7z" -> 2
      [] f = "d2.db" -> 3
      [] f = "d2.db.7z" -> 4
      [] OTHER -> 5

\* sorted(files)[-1]
Latest(fs) == CHOOSE f \in fs : \A g \in fs : SortKey(g) <= SortKey(f)

\* The store an archive holds: compress_db archives <name>.db as <name>.db.7z.
ExtractedFrom(zipped_db_file) == IF zipped_db_file = "d1.db.7z" THEN "d1.db" ELSE "d2.db"

\* werkzeug's secure_filename: path separators and leading dots are removed.
secure_filename(filename) ==
    IF filename = "../d2.db.7z" THEN "d2.db.7z" ELSE filename

\* What the client can send: the secret_key form field (None: no such field)
\* and the 'file' part (absent, with an empty file name, or named).
Secrets == {None, "", "s3cret", "wrong"}
UploadNames == {"", "d1.db.7z", "../d2.db.7z", "notes.txt"}
Requests ==
    {[secret_key |-> k, file |-> [present |-> TRUE, filename |-> n]] :
        k \in Secrets, n \in UploadNames}
    \cup {[secret_key |-> k, file |-> [present |-> FALSE, filename |-> ""]] : k \in Secrets}

\* The test upload_secure makes of the secret.
SecretRejected(secret_key, configured) == secret_key # configured

\* unzip_new_db_file on a folder: the folder it leaves and whether it raised.
\*   listed_last  the archive os.listdir lists last (zipped_db_files[:-1]
\*                keeps every archive but that one for deletion)
\*   extracted    whether extractall succeeded
unzip_always_extracting(folder, listed_last, extracted) ==
    LET zipped_db_files == {f \in folder : IsArchive(f)}
        unzipped_db_files == {f \in folder : IsStore(f)}
        other_files == {f \in folder : ~IsArchive(f) /\ ~IsStore(f)}
        kept == folder \ other_files
    IN  IF zipped_db_files = {}
          THEN [raised |-> TRUE, folder |-> kept]
        ELSE IF ~extracted
          THEN [raised |-> FALSE, folder |-> kept]
        ELSE [raised |-> FALSE,
              folder |-> ((kept \cup {ExtractedFrom(Latest(zipped_db_files))})
                             \ unzipped_db_files) \ (zipped_db_files \ {listed_last})]

unzip_new_db_file(folder, listed_last, extracted) ==
    LET zipped_db_files == {f \in folder : IsArchive(f)}
        unzipped_db_files == {f \in folder : IsStore(f)}
        other_files == {f \in folder : ~IsArchive(f) /\ ~IsStore(f)}
        kept == folder \ other_files
    IN  IF Cardinality(unzipped_db_files) = 1 /\ Cardinality(zipped_db_files) = 1
          THEN [raised |-> FALSE, folder |-> kept]
        ELSE IF zipped_db_files = {}
          THEN [raised |-> TRUE, folder |-> kept]    \* sorted([])[-1]: IndexError
        ELSE IF ~extracted
          THEN [raised |-> FALSE, folder |-> kept]   \* except Exception: print
        ELSE [raised |-> FALSE,
              folder |-> ((kept \cup {ExtractedFrom(Latest(zipped_db_files))})
                             \ unzipped_db_files) \ (zipped_db_files \ {listed_last})]

\* upload_secure: one POST request, handled to its response.
UploadSecure ==
    /\ served < MaxRequests
    /\ \E req \in Requests :
        /\ request' = req
        /\ IF SecretRejected(req.secret_key, UPLOAD_SECRET_KEY)
             THEN /\ response' = 401
                  /\ UNCHANGED <<database, unzipCalls>>
           ELSE IF ~req.file.present \/ req.file.filename = ""
             THEN /\ response' = 400
                  /\ UNCHANGED <<database, unzipCalls>>
           ELSE LET saved == database \cup {secure_filename(req.file.filename)}
                IN \E listed_last \in {f \in saved : IsArchive(f)} \cup {None},
                      extracted \in BOOLEAN :
                     /\ listed_last = None <=> {f \in saved : IsArchive(f)} = {}
                     /\ LET done == unzip_new_db_file(saved, listed_last, extracted)
                        IN /\ database' = done.folder
                           /\ response' = IF done.raised THEN 500 ELSE 200
                     /\ unzipCalls' = unzipCalls + 1
    /\ served' = served + 1
    /\ UNCHANGED UPLOAD_SECRET_KEY
    /\ DepositFrame

DepositNext == UploadSecure

\* create_app has read UPLOAD_SECRET_KEY from the environment (None when it
\* is not set); the folder holds what earlier deposits left.
DepositInit ==
    /\ ScrollIdle
    /\ ConfigIdle
    /\ MainIdle
    /\ files = NoFiles
    /\ combined = NoCombined
    /\ DbIdle
    /\ HistIdle
    /\ FanIdle
    /\ UPLOAD_SECRET_KEY \in {None, "s3cret"}
    /\ database \in {{}, {"d1.db.7z", "d1.db"}}
    /\ request = NoRequest
    /\ response = NoResponse
    /\ served = 0
    /\ unzipCalls = 0
    /\ PriceIdle
    /\ SearchIdle
    /\ PartIdle

(***************************************************************************)
(* get_prices of the shop adapters                                         *)
(*                                                                         *)
(* A price fragment is what the page shows for one result element: up to   *)
(* two spans of text.  Amounts are in kurus (1 TL = 100 kurus), so the     *)
(* floats rounded to two places are integers here.                         *)
(***************************************************************************)

PriceFrame ==
    UNCHANGED <<scrollVars, configVars, mainVars, fileVars, dbVars, histVars,
                fanVars, depositVars, searchVars, partVars>>

\* Amounts a page can show: 0,00 TL, 108,00 TL, 180,00 TL and 1.294,95 TL.
Amounts == {0, 10800, 18000, 129495}

TextSpans == {Span("junk", 0)} \cup {Span("price", a) : a \in Amounts}

\* round(float(text.replace('.', '').replace(',', '.')), 2): the amount, or
\* the ValueError float raises (IndexError / AttributeError for a span that
\* is not there).
ParsePrice(span) ==
    IF span.kind = "price" THEN [raised |-> FALSE, kurus |-> span.kurus]
    ELSE [raised |-> TRUE, kurus |-> 0]

Prices(discount, price) == [discount |-> discount, price |-> price, returned |-> TRUE]

\* MigrosScraper.get_prices.  With "Money ile" in the text the first amount
\* is taken as the price and the second as the discount price, as they
\* stand; without it the one amount is both.
MigrosFragments ==
    {[promotion |-> TRUE, first |-> a, second |-> b] : a \in TextSpans, b \in TextSpans}
    \cup {[promotion |-> FALSE, first |-> a, second |-> AbsentSpan] : a \in TextSpans}

migros_get_prices(product_price_element) ==
    LET first == ParsePrice(product_price_element.first)
        second == ParsePrice(product_price_element.second)
    IN  IF product_price_element.promotion
          THEN IF first.raised \/ second.raised THEN Prices(0, 0)
               ELSE Prices(second.kurus, first.kurus)
        ELSE IF first.raised THEN Prices(0, 0)
        ELSE Prices(first.kurus, first.kurus)

\* OnurmarketScraper.get_prices.  first is the discountPriceSpan, second the
\* regularPriceSpan, which the page shows only with a promotion.
OnurmarketFragments ==
    {[promotion |-> b.kind # "absent", first |-> a, second |-> b] :
        a \in TextSpans \cup {AbsentSpan}, b \in TextSpans \cup {AbsentSpan}}

onurmarket_get_prices(tag) ==
    LET discount_price == ParsePrice(tag.first)
        regular_price == ParsePrice(tag.second)
    IN  IF discount_price.raised THEN Prices(0, 0)
        ELSE IF tag.second.kind = "absent"
          THEN Prices(discount_price.kurus, discount_price.kurus)
        ELSE IF regular_price.raised THEN Prices(0, 0)
        ELSE Prices(discount_price.kurus, regular_price.kurus)

PriceShops == {"Migros", "Onurmarket"}

get_prices(shop, tag) ==
    IF shop = "Migros" THEN migros_get_prices(tag) ELSE onurmarket_get_prices(tag)

\* search() builds Discount_Price and Price of one record from the fragment.
GetPrices ==
    /\ ~prices.returned
    /\ prices' = get_prices(priceShop, price_tag)
    /\ UNCHANGED <<priceShop, price_tag>>
    /\ PriceFrame

PricesNext == GetPrices

PricesInit ==
    /\ ScrollIdle
    /\ ConfigIdle
    /\ MainIdle
    /\ files = NoFiles
    /\ combined = NoCombined
    /\ DbIdle
    /\ HistIdle
    /\ FanIdle
    /\ DepositIdle
    /\ priceShop \in PriceShops
    /\ price_tag \in (IF priceShop = "Migros" THEN MigrosFragments ELSE OnurmarketFragments)
    /\ prices = NoPrices
    /\ SearchIdle
    /\ PartIdle

(***************************************************************************)
(* search() of the adapters over a result set of pages                     *)
(*                                                                         *)
(* A result set is a sequence of pages; a page is the sequence of its      *)
(* result elements, each well-formed (TRUE) or lacking a node the          *)
(* extraction reads (FALSE: article.find returns None, or find_all(...)[0] *)
(* has no element).  The record of an element is its place in the result   *)
(* set.                                                                    *)
(***************************************************************************)

SearchFrame ==
    UNCHANGED <<scrollVars, configVars, mainVars, fileVars, dbVars, histVars,
                fanVars, depositVars, priceVars, partVars>>

\* Cap on the pages of a result set.
MaxPages == 3

\* The pages a shop can show.
PageShapes == {<<TRUE>>, <<FALSE>>, <<TRUE, TRUE>>, <<TRUE, FALSE>>, <<FALSE, TRUE>>}

\* Macrocenter shows one scrolled page; Migros and Koop show numbered pages.
\* "Koop" is src/shops/koop.py, "shop_scrapers.koop" the module of that name.
Adapters == {"Macrocenter", "Migros", "Koop", "shop_scrapers.koop"}

ResultSets(a) ==
    IF a = "Macrocenter" THEN [1..1 -> PageShapes]
    ELSE UNION {[1..n -> PageShapes] : n \in 1..MaxPages}

ProductRecord(p, i) == [page |-> p, index |-> i]

\* The records of the elements of page p, in page order.
RecordsOf(pages, p) == [i \in 1..Len(pages[p]) |-> ProductRecord(p, i)]

\* The for-loop over the articles of page p raises at one of them.
ExtractionFails(pages, p) == \E i \in 1..Len(pages[p]) : ~pages[p][i]

\* What it had appended when it raised.
RecordsBeforeFailure(pages, p) ==
    LET bad == CHOOSE i \in 1..Len(pages[p]) :
                   ~pages[p][i] /\ \A j \in 1..(i - 1) : pages[p][j]
    IN SubSeq(RecordsOf(pages, p), 1, bad - 1)

\* driver.get(search_url) and the readiness wait: the first page is loaded.
SearchOpen ==
    /\ searchPc = "start"
    /\ page_num' = 1
    /\ visited' = <<1>>
    /\ searchPc' = "page"
    /\ UNCHANGED <<adapter, resultPages, scraped_data, retrieved>>
    /\ SearchFrame

\* 'except Exception' around the whole body of search: log and return None.
SearchReturnsNone(appended) ==
    /\ scraped_data' = scraped_data \o appended
    /\ retrieved' = Result(None, <<>>)
    /\ searchPc' = "returned"
    /\ UNCHANGED <<page_num, visited>>

\* MacrocenterScraper.search after the scroll loop, and one pass of the
\* while-loop of MigrosScraper.search: the loaded page is parsed, its
\* elements are extracted, and (Migros) the next-page button is clicked when
\* it is there; when it is not, the wait for it times out and the loop ends.
SearchPage ==
    /\ searchPc = "page"
    /\ adapter \in {"Macrocenter", "Migros"}
    /\ IF ExtractionFails(resultPages, page_num)
         THEN SearchReturnsNone(RecordsBeforeFailure(resultPages, page_num))
         ELSE /\ scraped_data' = scraped_data \o RecordsOf(resultPages, page_num)
              /\ IF adapter = "Migros" /\ page_num < Len(resultPages)
                   THEN /\ page_num' = page_num + 1
                        /\ visited' = Append(visited, page_num + 1)
                        /\ UNCHANGED <<searchPc, retrieved>>
                   ELSE /\ retrieved' = Result("list", scraped_data')
                        /\ searchPc' = "returned"
                        /\ UNCHANGED <<page_num, visited>>
    /\ UNCHANGED <<adapter, resultPages>>
    /\ SearchFrame

\* One pass of the while-loop of KoopScraper.search (src/shops/koop.py): the
\* page at hand is extracted, page_num is incremented and the page of that
\* number is loaded; past the last page it holds the ss_urun_yok marker and
\* the loop ends.
SearchPageKoop ==
    /\ searchPc = "page"
    /\ adapter = "Koop"
    /\ IF ExtractionFails(resultPages, page_num)
         THEN SearchReturnsNone(RecordsBeforeFailure(resultPages, page_num))
         ELSE /\ scraped_data' = scraped_data \o RecordsOf(resultPages, page_num)
              /\ page_num' = page_num + 1
              /\ visited' = Append(visited, page_num + 1)
              /\ IF page_num < Len(resultPages)
                   THEN UNCHANGED <<searchPc, retrieved>>
                   ELSE /\ retrieved' = Result("list", scraped_data')
                        /\ searchPc' = "returned"
    /\ UNCHANGED <<adapter, resultPages>>
    /\ SearchFrame

\* KoopScraper.search of shop_scrapers/koop.py after the first page is
\* loaded: page_num_max is read from the page, and the for-loop over
\* range(1, page_num_max + 1) extracts, at every pass, the articles of the
\* soup parsed before the loop; no other page is requested.
SearchPagesOfFirstSoup ==
    /\ searchPc = "page"
    /\ adapter = "shop_scrapers.koop"
    /\ LET page_num_max == Len(resultPages)
       IN IF ExtractionFails(resultPages, 1)
            THEN SearchReturnsNone(RecordsBeforeFailure(resultPages, 1))
            ELSE /\ scraped_data' = scraped_data
                        \o ConcatAll([k \in 1..page_num_max |-> RecordsOf(resultPages, 1)])
                 /\ page_num' = page_num_max
                 /\ retrieved' = Result("list", scraped_data')
                 /\ searchPc' = "returned"
                 /\ UNCHANGED visited
    /\ UNCHANGED <<adapter, resultPages>>
    /\ SearchFrame

SearchNext ==
    \/ SearchOpen
    \/ SearchPage
    \/ SearchPageKoop
    \/ SearchPagesOfFirstSoup

SearchInit ==
    /\ ScrollIdle
    /\ ConfigIdle
    /\ MainIdle
    /\ files = NoFiles
    /\ combined = NoCombined
    /\ DbIdle
    /\ HistIdle
    /\ FanIdle
    /\ DepositIdle
    /\ PriceIdle
    /\ adapter \in Adapters
    /\ resultPages \in ResultSets(adapter)
    /\ searchPc = "start"
    /\ page_num = 1
    /\ visited = <<>>
    /\ scraped_data = <<>>
    /\ retrieved = Unset
    /\ PartIdle

(***************************************************************************)
(* Specifications                                                          *)
(***************************************************************************)

\* ---- run_scraping.main, started on a day whose store already holds the
\* table of the first shop from an earlier run and no table of the second.
ExistingStore ==
    [s \in ShopNames |->
        IF s = Shops[1] THEN Table(<<Row("p-123", "Sut 1L")>>) ELSE NoTable]

Init ==
    /\ ScrollIdle
    /\ scrape \in [1..Len(Shops) -> BOOLEAN]
    /\ arg_shop_name \in {None} \cup ShopNames
    /\ scraperType = [i \in 1..Len(Shops) |-> "basic"]
    /\ CUSTOM_PROXY = None
    /\ classifierMode = "unset"
    /\ mainPc = "shop_loop"
    /\ shopIdx = 1
    /\ catIdx = 1
    /\ driver = "none"
    /\ outcome = NoOutcome
    /\ log = <<>>
    /\ files = NoFiles
    /\ combined = NoCombined
    /\ dbPc = "idle"
    /\ data = <<>>
    /\ mergeIdx = 1
    /\ pending = <<>>
    /\ table = ExistingStore
    /\ metadata = "absent"
    /\ returned = "unset"
    /\ archive = FALSE
    /\ HistIdle
    /\ FanIdle
    /\ DepositIdle
    /\ PriceIdle
    /\ SearchIdle
    /\ PartIdle

Next ==
    \/ EndShops
    \/ SkipShop
    \/ StartShop
    \/ GetScraper
    \/ GetScraperDriverFails
    \/ ScrapeCategory
    \/ Combine
    \/ Filter
    \/ MergeNothing
    \/ MergeStart
    \/ MergeCheck
    \/ MergeDrop
    \/ MergeCreate
    \/ MergeInsert
    \/ MergeReturn
    \/ MergeFail
    \/ MergeFinally
    \/ Compress

Spec == Init /\ [][Next]_vars

\* ---- the scroll-until-stable loader alone
ScrollSpecInit ==
    /\ ScrollInit
    /\ ConfigIdle
    /\ MainIdle
    /\ files = NoFiles
    /\ combined = NoCombined
    /\ DbIdle
    /\ HistIdle
    /\ FanIdle
    /\ DepositIdle
    /\ PriceIdle
    /\ SearchIdle
    /\ PartIdle

SpecScroll == ScrollSpecInit /\ [][ScrollNext]_vars

\* ---- the scroll loop on a page that never settles.  search() is one
\* thread that keeps executing: a step that can be taken is taken.
SpecScrollForever == ScrollSpecInit /\ [][ScrollForeverNext]_vars /\ WF_vars(ScrollForeverNext)

\* ---- repeated consolidation of the same PerCategoryFiles
SpecConsolidate == ConsolidateInit /\ [][ConsolidateNext]_vars

\* ---- repeated runs of create_sqlite_from_csvs on one day's store
SpecMerge == MergeInit /\ [][MergeNext]_vars


\* ---- the fan-out run of one shop
SpecFanout == FanInit /\ [][FanNext]_vars

\* ---- the frontend's deposit endpoint
SpecDeposit == DepositInit /\ [][DepositNext]_vars

\* ---- main's shop loop over shops.json entries of either scraper type, with
\* and without CUSTOM_PROXY in the environment, up to the end of the loop
ScraperTypes == {"basic", "advanced"}

SessionsInit ==
    /\ ScrollIdle
    /\ scrape \in [1..Len(Shops) -> BOOLEAN]
    /\ arg_shop_name = None
    /\ classifierMode = "unset"
    /\ scraperType \in [1..Len(Shops) -> ScraperTypes]
    /\ CUSTOM_PROXY \in {None, "http://proxy:8080"}
    /\ mainPc = "shop_loop"
    /\ shopIdx = 1
    /\ catIdx = 1
    /\ driver = "none"
    /\ outcome = NoOutcome
    /\ log = <<>>
    /\ files = NoFiles
    /\ combined = NoCombined
    /\ DbIdle
    /\ HistIdle
    /\ FanIdle
    /\ DepositIdle
    /\ PriceIdle
    /\ SearchIdle
    /\ PartIdle

SessionsNext ==
    \/ EndShops
    \/ SkipShop
    \/ StartShop
    \/ GetScraper
    \/ GetScraperDriverFails
    \/ GetAdvancedScraper
    \/ GetScraperProxyUnset
    \/ ScrapeCategory
    \/ Combine

SpecSessions == SessionsInit /\ [][SessionsNext]_vars

\* ---- a later run of main on the same day: the download folder holds the
\* category files and the combined.csv an earlier run left for the first
\* shop (a file per category the earlier search found rows for)
EarlierRunFolders ==
    {[s \in ShopNames |->
        [c \in Categories |->
            IF s = Shops[1] /\ c \in found THEN File(PageOf(c)) ELSE NoFile]] :
        found \in SUBSET Categories}

SameDayInit ==
    /\ ScrollIdle
    /\ scrape \in [1..Len(Shops) -> BOOLEAN]
    /\ arg_shop_name = None
    /\ classifierMode = "unset"
    /\ scraperType \in [1..Len(Shops) -> ScraperTypes]
    /\ CUSTOM_PROXY \in {None, "http://proxy:8080"}
    /\ mainPc = "shop_loop"
    /\ shopIdx = 1
    /\ catIdx = 1
    /\ driver = "none"
    /\ outcome = NoOutcome
    /\ log = <<>>
    /\ files \in EarlierRunFolders
    /\ combined = [s \in ShopNames |-> combine_and_filter_csvs(files[s], NoFile)]
    /\ DbIdle
    /\ HistIdle
    /\ FanIdle
    /\ DepositIdle
    /\ PriceIdle
    /\ SearchIdle
    /\ PartIdle

SpecSameDay == SameDayInit /\ [][SessionsNext]_vars

\* ---- get_prices on every price fragment
SpecPrices == PricesInit /\ [][PricesNext]_vars

\* ---- search() over every result set
SpecSearch == SearchInit /\ [][SearchNext]_vars

\* ---- scrape()'s split and workers over every catalog
SpecPartition == PartInit /\ [][PartNext]_vars
----------------------------------------------------------------------------
\* The first poll (1-based) whose count equals the count of the poll
\* immediately before it; 0 when the script holds no such poll.
RECURSIVE FirstRepeatFrom(_, _)
FirstRepeatFrom(s, k) ==
    IF k > Len(s) THEN 0
    ELSE IF s[k] = s[k - 1] THEN k
    ELSE FirstRepeatFrom(s, k + 1)

FirstRepeat(s) == FirstRepeatFrom(s, 2)

\* C1: for every sequence of polled counts the loader stops at the first poll
\* whose count equals the count of the poll immediately before it and returns
\* the content holding that count; for [0, 5, 12, 12] it stops at the fourth
\* poll and returns 12 elements.
C1_StopsAtFirstRepeat ==
    loaderPc = "done" =>
        /\ Len(polled) = FirstRepeat(script)
        /\ loaded = script[Len(polled)]
        /\ (script = <<0, 5, 12, 12>> => Len(polled) = 4 /\ loaded = 12)

----------------------------------------------------------------------------
\* Position of a shop in shops.json.
ShopIndex(s) == CHOOSE i \in 1..Len(Shops) : Shops[i] = s

\* scrape_categories was entered for the shop, and it has returned.
Started(s) == outcome[s][Catalog[1]].kind # "unset"
ScrapeReturned(s) ==
    \/ ShopIndex(s) < shopIdx
    \/ ShopIndex(s) = shopIdx /\ mainPc = "scrape" /\ catIdx > Len(Catalog)

\* The categories the orchestrator attempted for the shop, in log order.
RECURSIVE AttemptedFrom(_, _)
AttemptedFrom(s, k) ==
    IF k > Len(log) THEN <<>>
    ELSE IF log[k].shop = s /\ log[k].msg = "waiting"
           THEN <<log[k].category>> \o AttemptedFrom(s, k + 1)
    ELSE AttemptedFrom(s, k + 1)

Attempted(s) == AttemptedFrom(s, 1)

LoadFailed(s, c) == outcome[s][c].kind \in {None, "raise"}
LoadedRecords(s, c) == outcome[s][c].kind = "list" /\ outcome[s][c].rows # <<>>

SkipLogged(s, c) ==
    \E k \in 1..Len(log) :
        /\ log[k].shop = s
        /\ log[k].category = c
        /\ log[k].msg \in {"no data to save", "exception occurred"}

----------------------------------------------------------------------------
DriverFailed(s) ==
    \E k \in 1..Len(log) :
        log[k].shop = s /\ log[k].msg = "failed to create webdriver"

\* C3: when the driver of one shop cannot be created only that shop is
\* skipped; the failure never terminates the process (main goes on to the
\* remaining shops and to the filter, merge and archive steps).
C3_SessionFailureSkipsShopOnly ==
    (\E s \in ShopNames : DriverFailed(s)) =>
        mainPc # "uncaught"

----------------------------------------------------------------------------
\* The rows read by a consolidation of the shop's directory, concatenated.
Concatenated(s) == ConcatAll(CsvFilesFrom(files[s], 1))

\* The first row of a sequence that carries the id.
FirstWithId(rows, i) == rows[CHOOSE k \in 1..Len(rows) :
                              rows[k].id = i /\ \A j \in 1..(k - 1) : rows[j].id # i]

\* C4: the dataset combine_and_filter_csvs writes holds exactly one row for
\* every Scraped_Product_ID that occurs in an input file, and that row is the
\* first occurrence in concatenation order.
C4_OneRowPerScrapedId ==
    \A s \in ShopNames :
        (mainPc = "filter" /\ Concatenated(s) # <<>>) =>
            /\ combined[s].exists
            /\ \A i \in Ids :
                IF \E k \in 1..Len(Concatenated(s)) : Concatenated(s)[k].id = i
                  THEN /\ CountId(combined[s].rows, i) = 1
                       /\ FirstWithId(combined[s].rows, i) = FirstWithId(Concatenated(s), i)
                  ELSE CountId(combined[s].rows, i) = 0

----------------------------------------------------------------------------
\* C7: consolidating the same PerCategoryFiles twice (combine, then the
\* classifier filter) leaves the same consolidated dataset as the first
\* time; the first run's combined.csv is not read as an input by the second.
C7_ConsolidationIdempotent ==
    (mainPc = "merge" /\ runs >= 2) => combined = firstOutput

\* A second run is over, on files whose first consolidation wrote rows and
\* dropped some as non-food.
C7_Witness ==
    /\ mainPc = "merge"
    /\ runs = 2
    /\ classifierMode = "working"
    /\ firstOutput[Shops[1]].exists
    /\ firstOutput[Shops[1]].rows # <<>>
    /\ Len(firstOutput[Shops[1]].rows) < Len(Concatenated(Shops[1]))

----------------------------------------------------------------------------
ClassifierUnavailable(mode) == mode \in {"predict_fails", "not_loaded"}

\* C8: when every predict call fails, or the model is not available at all,
\* the filter step keeps every record of every consolidated dataset and the
\* run moves on to the merge step.
C8_AcceptAllWhenClassifierFails ==
    [][(mainPc = "filter" /\ ClassifierUnavailable(classifierMode'))
          => (mainPc' = "merge" /\ combined' = combined)]_vars

\* The filter step has run with a failing classifier over a dataset that
\* holds a row the working model would reject.
C8_Witness ==
    /\ mainPc = "merge"
    /\ ClassifierUnavailable(classifierMode)
    /\ \E s \in ShopNames :
        /\ combined[s].exists
        /\ \E k \in 1..Len(combined[s].rows) : combined[s].rows[k].name = "Sampuan"


----------------------------------------------------------------------------
\* A run of create_sqlite_from_csvs is over (it returned db_file or None).
MergeRunOver == dbPc = "returned"

\* C5: after any run of the merge every row the shop's table held before
\* the run is still in the table; a merge never deletes a historical row.
C5_MergeKeepsEveryOldRow ==
    MergeRunOver =>
        \A s \in ShopNames :
            RowSet(tableBefore[s].rows) \subseteq RowSet(table[s].rows)

\* C6: the row count of a shop's table never decreases from one run of the
\* merge to the next.
C6_RowCountNonDecreasing ==
    MergeRunOver =>
        \A s \in ShopNames :
            Len(table[s].rows) >= Len(tableBefore[s].rows)

\* The dataframe the run under observation was to merge into the shop's
\* table; none when the shop had no combined.csv.
DataframeOf(s) ==
    IF \E k \in 1..Len(data) : data[k].shop = s
      THEN (data[CHOOSE k \in 1..Len(data) : data[k].shop = s]).df
      ELSE <<>>

HasDataframe(s) == \E k \in 1..Len(data) : data[k].shop = s

\* C10: when the process dies at any point of a merge, every table of the
\* store is either as it was before the run or completely merged; no
\* partly written table is observable.
C10_CrashLeavesOldOrNewTable ==
    dbPc = "crashed" =>
        \A s \in ShopNames :
            \/ table[s] = tableBefore[s]
            \/ HasDataframe(s) /\ table[s] = MergedTable(tableBefore[s], DataframeOf(s))

----------------------------------------------------------------------------
\* C9: in the fan-out run of one shop consolidation starts only after every
\* worker process has terminated: while combine_and_deduplicate_csvs is
\* about to run or has run, no worker is running or writing a file, and
\* the dataset it wrote is the consolidation of the files as they stay.
C9_ConsolidationAfterAllWorkers ==
    /\ fanPc \in {"combine", "done"} =>
          \A w \in 1..Len(jobs) : Terminated(jobs[w])
    /\ fanPc = "done" =>
          combined[shop_name] = combine_and_deduplicate_csvs(files[shop_name], NoFile)

\* Two workers wrote category files, both have exited and the handler has
\* consolidated them.
C9_Witness ==
    /\ fanPc = "done"
    /\ Len(jobs) = 2
    /\ \A w \in 1..Len(jobs) : jobs[w].state = "exited"
    /\ files[shop_name]["Sut"].exists
    /\ files[shop_name]["Sucuk"].exists
    /\ combined[shop_name].exists

----------------------------------------------------------------------------
\* C11: upload_secure writes into the database folder, and calls the
\* unpacker, only for a request that carries a secret equal to the configured
\* one; for every other request (also one without a secret sent to a server
\* without a configured secret) the folder is unchanged.
C11_DepositOnlyWithSecret ==
    [][(database' # database \/ unzipCalls' # unzipCalls)
          => (request'.secret_key # None /\ request'.secret_key = UPLOAD_SECRET_KEY)]_vars

----------------------------------------------------------------------------
\* C12: every record an adapter emits has 0 <= discount_price <= price, and
\* discount_price = price when the element shows no promotion, for every
\* price fragment get_prices can be given.
C12_DiscountAtMostPrice ==
    prices.returned =>
        /\ 0 <= prices.discount
        /\ prices.discount <= prices.price
        /\ (~price_tag.promotion => prices.discount = prices.price)

----------------------------------------------------------------------------
\* C14: when main reaches get_scraper for a shop of the advanced (proxied)
\* type and CUSTOM_PROXY is not configured, the step skips that shop only:
\* main is back at the shop loop on the next shop, the process has not ended,
\* and nothing was searched or written for the shop.
C14_ProxyUnsetSkipsShopOnly ==
    [][(mainPc = "get_scraper" /\ scraperType[shopIdx] = "advanced" /\ CUSTOM_PROXY = None)
          => (mainPc' = "shop_loop" /\ shopIdx' = shopIdx + 1
              /\ outcome' = outcome /\ files' = files)]_vars

----------------------------------------------------------------------------
\* C15: when a create_sqlite_from_csvs run is over, the table of every shop
\* with a consolidated dataset, other than the shop whose merge failed,
\* holds the merge of its old table and its dataset.
C15_MergeFailureForOneShopOnly ==
    (dbPc = "returned" /\ data # <<>>) =>
        \A k \in 1..Len(data) :
            (returned = "db_file" \/ k # mergeIdx) =>
                table[data[k].shop] = MergedTable(tableBefore[data[k].shop], data[k].df)

----------------------------------------------------------------------------
\* C16: compress_db produces an archive only after a create_sqlite_from_csvs
\* run that merged every shop table (it returned db_file) and wrote the
\* metadata tables without error.
C16_ArchiveOnlyOfFinishedStore ==
    [][(archive' /\ ~archive) => (returned = "db_file" /\ metadata = "current")]_vars

----------------------------------------------------------------------------
\* The consolidator, the classifier filter, the merger or the archiver is
\* the next to act: scrape_categories has returned for the shop at hand, or
\* the shop loop is over.
AfterOrchestratorWrote ==
    \/ mainPc = "scrape" /\ catIdx > Len(Catalog)
    \/ mainPc \in {"filter", "merge"}

\* C17: combine_and_filter_csvs, filtering_all_combined_files and
\* create_sqlite_from_csvs leave every category file as scrape_categories
\* wrote it: no step of theirs, successful or failed, changes, removes or
\* adds one.
C17_CategoryFilesUntouched ==
    [][AfterOrchestratorWrote => files' = files]_vars

\* A run that wrote category files, consolidated and filtered them, and whose
\* merge failed: the category files are still there.
C17_Witness ==
    /\ mainPc = "done"
    /\ returned = None
    /\ \E s \in ShopNames :
        /\ combined[s].exists
        /\ \E c \in Categories : files[s][c].exists /\ files[s][c].rows # <<>>

----------------------------------------------------------------------------
\* C18: on every page, also one whose rendered-element count differs at
\* every poll, the scroll loop comes to an end: search() gets to parse the
\* page (or has given up at the readiness wait).
C18_ScrollLoopTerminates == <>(loaderPc \in {"done", "timeout"})

----------------------------------------------------------------------------
\* The iteration of scrape_categories at hand ends with search having given
\* up at the page-ready wait (it returned None).
ReadyWaitTimedOut ==
    /\ mainPc = "scrape"
    /\ catIdx <= Len(Catalog)
    /\ catIdx' = catIdx + 1
    /\ outcome'[Shops[shopIdx]][Catalog[catIdx]].kind = None

\* C19: an iteration of scrape_categories whose search timed out at the
\* page-ready wait leaves neither the orchestrator state (the download
\* folder) nor the log that the same iteration leaves after a load that found
\* zero results.
C19_TimeoutUnlikeZeroResults ==
    [][ReadyWaitTimedOut =>
          LET shop == Shops[shopIdx]
              cat == Catalog[catIdx]
              zero == Result("list", <<>>)
          IN /\ files' # FilesAfter(files, shop, cat, zero)
             /\ log' # log \o LogAfter(shop, cat, zero)]_vars

----------------------------------------------------------------------------
\* search has loaded page p of the result set.
Processed(p) == \E k \in 1..Len(visited) : visited[k] = p

\* C13: when search of Macrocenter or Migros has returned, its result holds
\* the record of every well-formed element of every page it processed; an
\* element whose extraction failed costs that element only.
C13_MalformedElementSkippedOnly ==
    (searchPc = "returned" /\ adapter \in {"Macrocenter", "Migros"}) =>
        \A p \in 1..Len(resultPages) :
            Processed(p) =>
                \A i \in 1..Len(resultPages[p]) :
                    resultPages[p][i] =>
                        \E k \in 1..Len(retrieved.rows) :
                            retrieved.rows[k] = ProductRecord(p, i)

----------------------------------------------------------------------------
\* The records of all pages of the result set, each once, in page order.
AllRecords(pages) == ConcatAll([p \in 1..Len(pages) |-> RecordsOf(pages, p)])

WellFormed(pages) ==
    \A p \in 1..Len(pages) : \A i \in 1..Len(pages[p]) : pages[p][i]

\* C20: for a result set of n pages of well-formed elements, search of a
\* paging adapter returns a list, has loaded the pages 1..n in that order,
\* and the list holds the records of the n pages, each exactly once, in page
\* order.
C20_EveryPageOnceInOrder ==
    (searchPc = "returned" /\ adapter # "Macrocenter" /\ WellFormed(resultPages)) =>
        LET n == Len(resultPages) IN
        /\ retrieved.kind = "list"
        /\ Len(visited) >= n
        /\ \A p \in 1..n : visited[p] = p
        /\ retrieved.rows = AllRecords(resultPages)

----------------------------------------------------------------------------
----------------------------------------------------------------------------
\* C22: for every catalog and every split of it, no output path is written
\* for two different catalog entries, neither by two workers nor by one.
C22_OutputPathsDistinct ==
    \A c \in Categories : Cardinality(writers[c]) <= 1

----------------------------------------------------------------------------
\* The places (worker, position in its slice) at which catalog row r was
\* handed out.
HandedTo(r) ==
    {wk \in UNION {{<<w, k>> : k \in 1..Len(slices[w])} : w \in 1..Len(slices)} :
        slices[wk[1]][wk[2]].row = r}

AllJoined == slices # <<>> /\ \A w \in 1..Len(slices) : ended[w] # "running"
NoWorkerFailed == \A w \in 1..Len(slices) : ended[w] # "failed"

\* C30: the slices handed to the workers are a partition of the catalog
\* (every catalog entry is in exactly one slice, once, and a slice holds
\* nothing else); no entry is ever searched twice; and when every worker has
\* ended and none has failed every entry has been searched exactly once.
C30_ChunksPartitionCatalog ==
    /\ slices # <<>> =>
          /\ \A r \in 1..Len(products_categories_to_search) : Cardinality(HandedTo(r)) = 1
          /\ \A w \in 1..Len(slices) : \A k \in 1..Len(slices[w]) :
                /\ slices[w][k].row \in 1..Len(products_categories_to_search)
                /\ slices[w][k] = products_categories_to_search[slices[w][k].row]
    /\ \A r \in 1..Len(searches) : searches[r] <= 1
    /\ (AllJoined /\ NoWorkerFailed) => \A r \in 1..Len(searches) : searches[r] = 1

\* A catalog of three rows split over two workers, both of which have exited.
C30_Witness ==
    /\ Len(products_categories_to_search) = 3
    /\ Len(slices) = 2
    /\ AllJoined
    /\ NoWorkerFailed
    /\ \A r \in 1..3 : searches[r] = 1

----------------------------------------------------------------------------
\* C23: when a create_sqlite_from_csvs run that updated a shop table is
\* over, the two metadata tables are the ones written in that run from the
\* current shops.json and food.json: they are not missing and hold nothing
\* of an earlier run.
C23_MetadataRewrittenWholesale ==
    (MergeRunOver /\ \E s \in ShopNames : table[s] # tableBefore[s]) =>
        metadata = "current"

\* The folder unzip_new_db_file is called on in an upload_secure step: the
\* folder before the request with the deposited file saved into it.
Deposited == database \cup {secure_filename(request'.file.filename)}
UnpackerCalled == unzipCalls' = unzipCalls + 1
OneArchiveOneStore(folder) ==
    /\ Cardinality({f \in folder : IsArchive(f)}) = 1
    /\ Cardinality({f \in folder : IsStore(f)}) = 1

\* C24 (as stated): when the folder holds exactly one archive and exactly one
\* extracted store, a call of unzip_new_db_file leaves the folder's contents
\* as they were before the call.
C24_NoOpLeavesFolder ==
    [][(UnpackerCalled /\ OneArchiveOneStore(Deposited)) => database' = Deposited]_vars

\* C24 (amended): in that case the call extracts nothing and deletes neither
\* the archive nor the store; the folder after the call is the folder before
\* it without its unrelated files.
C24_NoOpKeepsArchiveAndStore ==
    [][(UnpackerCalled /\ OneArchiveOneStore(Deposited))
          => /\ database' = {f \in Deposited : IsArchive(f) \/ IsStore(f)}
             /\ response' = 200]_vars

\* The first request deposits notes.txt next to d1.db.7z and d1.db.
C24_Witness ==
    /\ served = 1
    /\ unzipCalls = 1
    /\ request.file.filename = "notes.txt"
    /\ response = 200
    /\ database = {"d1.db.7z", "d1.db"}

\* C28: unzip_new_db_file raises for no folder content, also not for a folder
\* without an archive, and upload_secure answers a deposit with its normal
\* response: no request is answered with the server error of a raised
\* handler.
C28_UnpackerNeverRaises == response # 500

\* sorted(zipped_db_files)[-1] over the folder the unpacker is called on.
NewestDeposited == Latest({f \in Deposited : IsArchive(f)})

\* C25: when unzip_new_db_file returns from a call that was not the no-op
\* case, the folder holds exactly the archive with the greatest file name
\* and the store extracted from it; stated here for the archive, the part
\* an extraction that fails cannot break: the newest archive has not been
\* removed.
C25_NewestArchiveNotRemoved ==
    [][(UnpackerCalled /\ ~OneArchiveOneStore(Deposited) /\ response' = 200)
          => NewestDeposited \in database']_vars

\* C27: after a run of create_sqlite_from_csvs, whether it created a shop's
\* table or merged into an existing one, no table holds two rows that are
\* equal in all columns.
C27_NoEqualRowsInTable ==
    (dbPc = "returned" /\ returned = "db_file")
        => \A s \in ShopNames :
              \A i, j \in 1..Len(table[s].rows) :
                  table[s].rows[i] = table[s].rows[j] => i = j

\* The classifier labels the row's display name positive.
LabelledPositive(row) == ModelResult(row.name).label = 1

\* C26: with the classifier gate enabled and working, the filter step leaves
\* in every combined.csv exactly the rows whose Display_Name the classifier
\* labels positive, in their order and unchanged; the rows labelled negative
\* are dropped.
C26_FilterKeepsPositiveRows ==
    [][(mainPc = "filter" /\ mainPc' = "merge" /\ RUN_PRODUCT_CLASSIFIER
            /\ classifierMode = "working")
          => \A s \in ShopNames :
                /\ combined'[s].exists = combined[s].exists
                /\ combined'[s].rows = SelectSeq(combined[s].rows, LabelledPositive)]_vars

\* A filtered combined.csv that kept a row and dropped a row of the category
\* files it was combined from.
C26_Witness ==
    /\ mainPc = "merge"
    /\ classifierMode = "working"
    /\ combined[Shops[1]].exists
    /\ Len(combined[Shops[1]].rows) >= 1
    /\ Len(combined[Shops[1]].rows) < Len(ConcatAll(csv_files(files[Shops[1]], combined[Shops[1]])))

\* What save_to_csv is to leave for a category whose search did 'result'.
FileOfRun(result) ==
    IF result.kind = "list" /\ Len(result.rows) >= 1 THEN File(result.rows) ELSE NoFile

\* C29: once scrape_categories has finished a category, its file of the day
\* holds exactly the rows this run's search returned, and there is no file
\* when the search returned no rows or failed, so that the consolidator,
\* which reads every csv file of the directory, reads nothing of an earlier
\* run for such a category.
C29_CategoryFileIsOfThisRun ==
    \A s \in ShopNames : \A c \in Categories :
        outcome[s][c] # Unset => files[s][c] = FileOfRun(outcome[s][c])
====
